---------------------------- MODULE Spec2Model ----------------------------
(***************************************************************************)
(* FollowerIndexForm (cross cluster replication): the component state, its *)
(* event handlers, the debounced name-collision check and the props the    *)
(* parent feeds it, as a state machine.  One action per handler; a handler *)
(* runs to completion before the next event is taken (single-threaded UI). *)
(***************************************************************************)
EXTENDS Naturals, FiniteSets, TLC

\* How many index-list fetches may be in flight at once in the model.
MaxInflight == 1

(***************************************************************************)
(* Value domains the inputs are drawn from.                                *)
(***************************************************************************)
NameValues == {"", " ", "a", "b"}
BlankNames == {"", " "}
ClusterValues == {"", "c1"}
LeaderValues == {"", "l"}
AdvValues == {"", "1", "x"}
IndexNames == {"a", "b"}

advancedSettingsFields == {"maxReadRequestOperationCount", "maxRetryDelay"}
IdentityFields == {"name", "remoteCluster", "leaderIndex"}
Fields == IdentityFields \cup advancedSettingsFields

\* An absent entry of fieldsErrors (undefined), and the error descriptors.
NoError == "undefined"
RequiredError == "required"
InvalidError == "invalid"
AlreadyExistsError == "alreadyExists"
ClusterError == "clusterError"

\* No debounced call pending.
NoCall == "none"

\* No value (no save arguments, no fetch result, no hide history): the
\* function with no keys.
Nil == [f \in {} |-> ""]

VARIABLES
  isNew,                       \* state.isNew
  followerIndex,               \* state.followerIndex
  fieldsErrors,                \* state.fieldsErrors
  areErrorsVisible,            \* state.areErrorsVisible
  areAdvancedSettingsVisible,  \* state.areAdvancedSettingsVisible
  isValidatingIndexName,       \* state.isValidatingIndexName
  cachedAdvancedSettings,      \* state.cachedAdvancedSettings
  debounced,                   \* argument of the pending debounced validateIndexName call, or NoCall
  inflight,                    \* name -> number of loadIndices() fetches awaiting their result
  apiStatus,                   \* props.apiStatus
  apiError,                    \* props.apiError is set
  lastOp,                      \* the handler that ran last
  calls,                       \* the collaborators the last handler invoked
  saveArgs,                    \* the arguments of the last handler's saveFollowerIndex call, or Nil
  fetched,                     \* the checked name and index list the last handler received, or Nil
  preHide                      \* history: the advanced values the last hide started from, or Nil

vars == <<isNew, followerIndex, fieldsErrors, areErrorsVisible,
          areAdvancedSettingsVisible, isValidatingIndexName,
          cachedAdvancedSettings, debounced, inflight, apiStatus, apiError,
          lastOp, calls, saveArgs, fetched, preHide>>

(***************************************************************************)
(* Validators and the field -> validator table.                            *)
(***************************************************************************)
indexNameValidator(value) ==
  IF value \in BlankNames THEN RequiredError ELSE NoError

leaderIndexValidator(value) ==
  IF value = "" THEN RequiredError ELSE NoError

advancedSettingValidator(value) ==
  IF value = "x" THEN InvalidError ELSE NoError

ValidatedFields == advancedSettingsFields \cup {"name", "leaderIndex"}

fieldToValidatorMap(field, value) ==
  IF field = "name" THEN indexNameValidator(value)
  ELSE IF field = "leaderIndex" THEN leaderIndexValidator(value)
  ELSE advancedSettingValidator(value)

emptyAdvancedSettings == [f \in advancedSettingsFields |-> ""]

\* {} and an undefined cachedAdvancedSettings: a partial update with no keys.
EmptySettings == [f \in {} |-> ""]

getEmptyFollowerIndex(remoteClusterName) ==
  [f \in Fields |->
     IF f = "remoteCluster" THEN remoteClusterName ELSE ""]

(***************************************************************************)
(* State transitions: fields update, errors update.  A partial update is a *)
(* function whose domain is the set of keys it carries.                    *)
(***************************************************************************)
\* A fields update that replaces the record: keys outside the update are
\* reset to the empty string.
updateFields_Replace(fields, fi) ==
  [f \in Fields |-> IF f \in DOMAIN fields THEN fields[f] ELSE ""]

updateFields(fields, fi) ==
  [f \in Fields |-> IF f \in DOMAIN fields THEN fields[f] ELSE fi[f]]

\* An errors update that replaces the error map instead of merging into it.
updateFormErrors_Replace(errors, fe) ==
  [f \in Fields |-> IF f \in DOMAIN errors THEN errors[f] ELSE NoError]

updateFormErrors(errors, fe) ==
  [f \in Fields |-> IF f \in DOMAIN errors THEN errors[f] ELSE fe[f]]

\* getFieldsErrors that gives a key without a validator an explicit
\* "no error" entry, which the merge then writes over what was reported.
getFieldsErrors_AllKeys(newFields) ==
  [f \in DOMAIN newFields |->
     IF f \in ValidatedFields THEN fieldToValidatorMap(f, newFields[f])
     ELSE NoError]

\* getFieldsErrors that runs no validator.
getFieldsErrors_None(newFields) == Nil

getFieldsErrors(newFields) ==
  [f \in (DOMAIN newFields) \cap ValidatedFields |->
     fieldToValidatorMap(f, newFields[f])]

\* clearApiError() called on every edit, pending error or not.
clearApiErrorCalls_Always == {"clearApiError"}

\* this.props.apiError ? clearApiError() : nothing
clearApiErrorCalls ==
  IF apiError THEN {"clearApiError"} ELSE {}

\* onFieldsChange that merges the fields and leaves the errors as they were.
onFieldsChange_NoRevalidate(fields) ==
  /\ followerIndex' = updateFields(fields, followerIndex)
  /\ fieldsErrors' = fieldsErrors
  /\ apiError' = IF "clearApiError" \in clearApiErrorCalls THEN FALSE ELSE apiError

\* onFieldsChange: this.state.fields is undefined, so newFields is the
\* partial update itself and only its keys are revalidated.
onFieldsChange(fields) ==
  /\ followerIndex' = updateFields(fields, followerIndex)
  /\ fieldsErrors' = updateFormErrors(getFieldsErrors(fields), fieldsErrors)
  /\ apiError' = IF "clearApiError" \in clearApiErrorCalls THEN FALSE ELSE apiError

\* isFormValid that looks only at the fields that have a validator.
isFormValid_ValidatedOnly ==
  \A f \in ValidatedFields : fieldsErrors[f] = NoError

isFormValid ==
  \A f \in Fields : fieldsErrors[f] = NoError

\* The number of fetches in flight, for the model's bound on them.
Count(fn) == LET RECURSIVE Sum(_)
                 Sum(S) == IF S = {} THEN 0
                           ELSE LET x == CHOOSE x \in S : TRUE
                                IN fn[x] + Sum(S \ {x})
             IN Sum(DOMAIN fn)

(***************************************************************************)
(* Construction.                                                           *)
(***************************************************************************)
ExistingRecords ==
  { [f \in Fields |->
       IF f = "name" THEN "a"
       ELSE IF f = "remoteCluster" THEN "c1"
       ELSE IF f = "leaderIndex" THEN "l"
       ELSE adv[f]] : adv \in [advancedSettingsFields -> AdvValues] }

Init ==
  /\ isNew \in BOOLEAN
  /\ followerIndex \in
       IF isNew
         THEN {getEmptyFollowerIndex(c) : c \in ClusterValues}
         ELSE {updateFields(r, getEmptyFollowerIndex("")) : r \in ExistingRecords}
  /\ fieldsErrors =
       updateFormErrors(getFieldsErrors(followerIndex), [f \in Fields |-> NoError])
  /\ areErrorsVisible = FALSE
  /\ areAdvancedSettingsVisible = ~isNew
  /\ isValidatingIndexName = FALSE
  /\ cachedAdvancedSettings = EmptySettings
  /\ debounced = NoCall
  /\ inflight = [n \in IndexNames |-> 0]
  /\ apiStatus = "idle"
  /\ apiError = FALSE
  /\ lastOp = "constructor"
  /\ calls = {}
  /\ saveArgs = Nil
  /\ fetched = Nil
  /\ preHide = Nil

(***************************************************************************)
(* What a handler leaves behind for the observer: its name, the            *)
(* collaborators it invoked, and the history of the last hide.  A handler  *)
(* other than the toggle forgets the hide history once the advanced        *)
(* section is visible again.                                               *)
(***************************************************************************)
Ran(op, invoked) ==
  /\ lastOp' = op
  /\ calls' = invoked

KeepHideHistory ==
  preHide' = IF areAdvancedSettingsVisible THEN Nil ELSE preHide

(***************************************************************************)
(* Field edits.                                                            *)
(***************************************************************************)
\* renderLoading: while saving, an overlay mask covers the form's controls.
isSavingOverlayShown == apiStatus = "saving"

\* What the rendered controls accept: disabled={!isNew}, isEditable={isNew},
\* and the toggle button rendered only when isNew.
isNameDisabled == ~isNew
isLeaderIndexDisabled == ~isNew
isRemoteClusterEditable == isNew
\* A toggle button rendered in edit mode too.
isToggleOffered_Always == TRUE

isToggleOffered == isNew

isBlank(name) == name \in BlankNames

\* A first-call-wins delay: a call made while one is pending is dropped.
debounce_FirstCallWins(pending, name) ==
  IF pending # NoCall THEN pending ELSE name

\* debounce(this.validateIndexName, 500): the delayed call that is pending
\* after validateIndexName(name) is requested while `pending` was waiting.
\* The later call replaces the earlier one; the delay itself is the
\* nondeterministic moment at which validateIndexNameStart fires.
debounce(pending, name) == name

onIndexNameChange(name) ==
  /\ ~isNameDisabled
  /\ ~isSavingOverlayShown
  /\ onFieldsChange([f \in {"name"} |-> name])
  /\ IF isBlank(name)
       THEN /\ isValidatingIndexName' = FALSE
            /\ debounced' = debounced
       ELSE /\ isValidatingIndexName' = TRUE
            /\ debounced' = debounce(debounced, name)
  /\ Ran("onIndexNameChange", clearApiErrorCalls)
  /\ saveArgs' = Nil
  /\ fetched' = Nil
  /\ KeepHideHistory
  /\ UNCHANGED <<isNew, areErrorsVisible, areAdvancedSettingsVisible,
                 cachedAdvancedSettings, inflight, apiStatus>>

onLeaderIndexUpdate(value) ==
  /\ ~isLeaderIndexDisabled
  /\ ~isSavingOverlayShown
  /\ onFieldsChange([f \in {"leaderIndex"} |-> value])
  /\ Ran("onFieldsChange", clearApiErrorCalls)
  /\ saveArgs' = Nil
  /\ fetched' = Nil
  /\ KeepHideHistory
  /\ UNCHANGED <<isNew, areErrorsVisible, areAdvancedSettingsVisible,
                 isValidatingIndexName, cachedAdvancedSettings, debounced,
                 inflight, apiStatus>>

onAdvancedSettingUpdate(field, value) ==
  /\ areAdvancedSettingsVisible
  /\ ~isSavingOverlayShown
  /\ onFieldsChange([f \in {field} |-> value])
  /\ Ran("onFieldsChange", clearApiErrorCalls)
  /\ saveArgs' = Nil
  /\ fetched' = Nil
  /\ KeepHideHistory
  /\ UNCHANGED <<isNew, areErrorsVisible, areAdvancedSettingsVisible,
                 isValidatingIndexName, cachedAdvancedSettings, debounced,
                 inflight, apiStatus>>

onClusterChange(remoteCluster) ==
  /\ isRemoteClusterEditable
  /\ ~isSavingOverlayShown
  /\ onFieldsChange([f \in {"remoteCluster"} |-> remoteCluster])
  /\ Ran("onClusterChange", clearApiErrorCalls)
  /\ saveArgs' = Nil
  /\ fetched' = Nil
  /\ KeepHideHistory
  /\ UNCHANGED <<isNew, areErrorsVisible, areAdvancedSettingsVisible,
                 isValidatingIndexName, cachedAdvancedSettings, debounced,
                 inflight, apiStatus>>

\* RemoteClustersFormField's onError: the error, or none, it reports.
onError(error) ==
  /\ fieldsErrors' =
       updateFormErrors([f \in {"remoteCluster"} |-> error], fieldsErrors)
  /\ Ran("onError", {})
  /\ saveArgs' = Nil
  /\ fetched' = Nil
  /\ KeepHideHistory
  /\ UNCHANGED <<isNew, followerIndex, areErrorsVisible,
                 areAdvancedSettingsVisible, isValidatingIndexName,
                 cachedAdvancedSettings, debounced, inflight, apiStatus,
                 apiError>>

(***************************************************************************)
(* The debounced name-collision check.  debounce(validateIndexName, 500)   *)
(* keeps the last call's argument and one timer; when the timer fires the  *)
(* call runs up to its await of loadIndices(); the rest of the handler     *)
(* runs when that fetch resolves or rejects.                               *)
(***************************************************************************)
validateIndexNameStart ==
  /\ debounced # NoCall
  /\ Count(inflight) < MaxInflight
  /\ inflight' = [inflight EXCEPT ![debounced] = @ + 1]
  /\ debounced' = NoCall
  /\ Ran("validateIndexNameStart", {"loadIndices"})
  /\ saveArgs' = Nil
  /\ fetched' = Nil
  /\ KeepHideHistory
  /\ UNCHANGED <<isNew, followerIndex, fieldsErrors, areErrorsVisible,
                 areAdvancedSettingsVisible, isValidatingIndexName,
                 cachedAdvancedSettings, apiStatus, apiError>>

\* A collision test against the name the field holds when the list arrives.
doesExist_CurrentName(name, indices) == followerIndex["name"] \in indices

\* A collision test that finds nothing.
doesExist_Never(name, indices) == FALSE

\* indices.some(index => index.name === name)
doesExist(name, indices) == name \in indices

validateIndexNameResolved(name, indices) ==
  /\ inflight[name] > 0
  /\ inflight' = [inflight EXCEPT ![name] = @ - 1]
  /\ fieldsErrors' =
       IF doesExist(name, indices)
         THEN updateFormErrors([f \in {"name"} |-> AlreadyExistsError], fieldsErrors)
         ELSE fieldsErrors
  /\ isValidatingIndexName' = FALSE
  /\ Ran("validateIndexNameResolved", {})
  /\ saveArgs' = Nil
  /\ fetched' = [name |-> name, indices |-> indices]
  /\ KeepHideHistory
  /\ UNCHANGED <<isNew, followerIndex, areErrorsVisible,
                 areAdvancedSettingsVisible, cachedAdvancedSettings, debounced,
                 apiStatus, apiError>>

\* catch (error): hasData is error && error.data.  No return follows the
\* if, so fatalError is reached for either shape of error.
fatalErrorCalls(hasData) == {"fatalError"}

validateIndexNameRejected(name, hasData) ==
  /\ inflight[name] > 0
  /\ inflight' = [inflight EXCEPT ![name] = @ - 1]
  /\ isValidatingIndexName' = IF hasData THEN FALSE ELSE isValidatingIndexName
  /\ Ran(IF hasData THEN "validateIndexNameRejectedData"
                    ELSE "validateIndexNameRejectedOther",
         fatalErrorCalls(hasData))
  /\ saveArgs' = Nil
  /\ fetched' = Nil
  /\ KeepHideHistory
  /\ UNCHANGED <<isNew, followerIndex, fieldsErrors, areErrorsVisible,
                 areAdvancedSettingsVisible, cachedAdvancedSettings, debounced,
                 apiStatus, apiError>>

(***************************************************************************)
(* Advanced settings toggle.                                               *)
(***************************************************************************)
\* A hide that caches every advanced field, the empty ones too.
newCachedAdvancedSettings_All(fields) ==
  [f \in advancedSettingsFields |-> fields[f]]

\* A hide that caches nothing.
newCachedAdvancedSettings_Nothing(fields) == Nil

newCachedAdvancedSettings(fields) ==
  [f \in {g \in advancedSettingsFields : fields[g] # ""} |-> fields[f]]

toggleAdvancedSettings ==
  /\ isToggleOffered
  /\ ~isSavingOverlayShown
  /\ IF areAdvancedSettingsVisible
       THEN /\ onFieldsChange(emptyAdvancedSettings)
            /\ areAdvancedSettingsVisible' = FALSE
            /\ cachedAdvancedSettings' = newCachedAdvancedSettings(followerIndex)
            /\ preHide' = [f \in advancedSettingsFields |-> followerIndex[f]]
       ELSE /\ onFieldsChange(cachedAdvancedSettings)
            /\ areAdvancedSettingsVisible' = TRUE
            /\ cachedAdvancedSettings' = EmptySettings
            /\ preHide' = preHide
  /\ Ran("toggleAdvancedSettings", clearApiErrorCalls)
  /\ saveArgs' = Nil
  /\ fetched' = Nil
  /\ UNCHANGED <<isNew, areErrorsVisible, isValidatingIndexName, debounced,
                 inflight, apiStatus>>

(***************************************************************************)
(* Submission.                                                             *)
(***************************************************************************)
\* renderFormErrorWarning returns null when !areErrorsVisible || isFormValid.
isFormErrorWarningShown == ~(~areErrorsVisible \/ isFormValid)

\* A Save button that is never disabled.
isSaveDisabled_Never == FALSE

isSaveDisabled == areErrorsVisible /\ ~isFormValid

\* Save arguments whose second argument still carries the name key.
saveFollowerIndexArgs_KeepsName ==
  [name |-> followerIndex["name"], followerIndex |-> followerIndex]

\* const { name, ...followerIndex } = this.getFields()
saveFollowerIndexArgs ==
  [name |-> followerIndex["name"],
   followerIndex |-> [f \in Fields \ {"name"} |-> followerIndex[f]]]

\* A sendForm that reveals the errors on an invalid form and never hides
\* them again.
sendForm_KeepsErrorsVisible ==
  /\ apiStatus # "saving"
  /\ ~isSaveDisabled
  /\ areErrorsVisible' = (areErrorsVisible \/ ~isFormValid)
  /\ IF ~isFormValid
       THEN /\ Ran("sendForm", {})
            /\ saveArgs' = Nil
            /\ apiStatus' = apiStatus
       ELSE /\ Ran("sendForm", {"saveFollowerIndex"})
            /\ saveArgs' = saveFollowerIndexArgs
            /\ apiStatus' = "saving"
  /\ fetched' = Nil
  /\ KeepHideHistory
  /\ UNCHANGED <<isNew, followerIndex, fieldsErrors,
                 areAdvancedSettingsVisible, isValidatingIndexName,
                 cachedAdvancedSettings, debounced, inflight, apiError>>

sendForm ==
  /\ apiStatus # "saving"
  /\ ~isSaveDisabled
  /\ areErrorsVisible' = ~isFormValid
  /\ IF ~isFormValid
       THEN /\ Ran("sendForm", {})
            /\ saveArgs' = Nil
            /\ apiStatus' = apiStatus
       ELSE /\ Ran("sendForm", {"saveFollowerIndex"})
            /\ saveArgs' = saveFollowerIndexArgs
            /\ apiStatus' = "saving"
  /\ fetched' = Nil
  /\ KeepHideHistory
  /\ UNCHANGED <<isNew, followerIndex, fieldsErrors,
                 areAdvancedSettingsVisible, isValidatingIndexName,
                 cachedAdvancedSettings, debounced, inflight, apiError>>

cancelForm ==
  /\ apiStatus # "saving"
  /\ Ran("cancelForm", {"navigate"})
  /\ saveArgs' = Nil
  /\ fetched' = Nil
  /\ KeepHideHistory
  /\ UNCHANGED <<isNew, followerIndex, fieldsErrors, areErrorsVisible,
                 areAdvancedSettingsVisible, isValidatingIndexName,
                 cachedAdvancedSettings, debounced, inflight, apiStatus,
                 apiError>>

(***************************************************************************)
(* The parent: the save it started ends, and the props change.             *)
(***************************************************************************)
saveEnded(failed) ==
  /\ apiStatus = "saving"
  /\ apiStatus' = "idle"
  /\ apiError' = failed
  /\ Ran("saveEnded", {})
  /\ saveArgs' = Nil
  /\ fetched' = Nil
  /\ KeepHideHistory
  /\ UNCHANGED <<isNew, followerIndex, fieldsErrors, areErrorsVisible,
                 areAdvancedSettingsVisible, isValidatingIndexName,
                 cachedAdvancedSettings, debounced, inflight>>

Next ==
  \/ \E name \in NameValues : onIndexNameChange(name)
  \/ \E value \in LeaderValues : onLeaderIndexUpdate(value)
  \/ \E field \in advancedSettingsFields, value \in AdvValues :
       onAdvancedSettingUpdate(field, value)
  \/ \E remoteCluster \in ClusterValues : onClusterChange(remoteCluster)
  \/ \E error \in {NoError, ClusterError} : onError(error)
  \/ validateIndexNameStart
  \/ \E name \in IndexNames, indices \in SUBSET IndexNames :
       validateIndexNameResolved(name, indices)
  \/ \E name \in IndexNames, hasData \in BOOLEAN :
       validateIndexNameRejected(name, hasData)
  \/ toggleAdvancedSettings
  \/ sendForm
  \/ cancelForm
  \/ \E failed \in BOOLEAN : saveEnded(failed)

Spec == Init /\ [][Next]_vars

(***************************************************************************)
(* Properties.                                                             *)
(***************************************************************************)
AllErrorsAbsent == \A f \in Fields : fieldsErrors[f] = NoError

SaveInvoked == "saveFollowerIndex" \in calls

ValidatorErrors ==
  {f \in ValidatedFields : fieldToValidatorMap(f, followerIndex[f]) # NoError}

CollisionFlagged == fieldsErrors["name"] = AlreadyExistsError

\* C1: a sendForm step invokes the save callback iff every entry of
\* fieldsErrors is absent; when some entry is present it sets
\* areErrorsVisible, invokes nothing and leaves followerIndex and
\* fieldsErrors as they were.
C1_SendFormSavesIffNoError ==
  [][lastOp' = "sendForm" =>
       /\ SaveInvoked' <=> AllErrorsAbsent
       /\ areErrorsVisible' <=> ~AllErrorsAbsent
       /\ ~AllErrorsAbsent =>
            /\ saveArgs' = Nil
            /\ followerIndex' = followerIndex
            /\ fieldsErrors' = fieldsErrors]_vars

C1_Witness ==
  /\ lastOp = "sendForm"
  /\ ~AllErrorsAbsent
  /\ areErrorsVisible
  /\ ~SaveInvoked

\* C2: in no reachable state has the save callback just been invoked while
\* the validator of some field reports an error for the field's current
\* value in followerIndex.
C2_NoSaveWithValidatorError ==
  SaveInvoked => ValidatorErrors = {}

C2_Witness ==
  /\ lastOp = "sendForm"
  /\ ~SaveInvoked
  /\ "maxRetryDelay" \in ValidatorErrors
  /\ fieldsErrors["name"] = NoError
  /\ fieldsErrors["leaderIndex"] = NoError

\* C3: whenever the save callback is invoked its first argument is the
\* current name and its second argument has no name key and maps every
\* other key of followerIndex to its current value.
C3_SaveArguments ==
  /\ SaveInvoked <=> saveArgs # Nil
  /\ SaveInvoked =>
       /\ saveArgs.name = followerIndex["name"]
       /\ DOMAIN saveArgs.followerIndex = Fields \ {"name"}
       /\ \A f \in Fields \ {"name"} :
            saveArgs.followerIndex[f] = followerIndex[f]

C3_Witness ==
  /\ SaveInvoked
  /\ saveArgs.name = "b"
  /\ saveArgs.followerIndex["remoteCluster"] = "c1"
  /\ saveArgs.followerIndex["maxRetryDelay"] = "1"

\* C4: a collision check that completes with its name in the fetched list
\* leaves the sticky already-exists error on the name field, and a
\* sendForm that follows it invokes no save.
C4_CollisionBlocksSave ==
  [][/\ (lastOp' = "validateIndexNameResolved"
          /\ fetched'.name \in fetched'.indices) => CollisionFlagged'
     /\ (lastOp = "validateIndexNameResolved"
          /\ fetched.name \in fetched.indices
          /\ lastOp' = "sendForm") => ~SaveInvoked' /\ areErrorsVisible']_vars

C4_Witness ==
  /\ lastOp = "sendForm"
  /\ CollisionFlagged
  /\ \A f \in Fields \ {"name"} : fieldsErrors[f] = NoError
  /\ ~SaveInvoked

\* C5 as stated, at the sendForm that follows the return of the index
\* list: when that list holds the current name the form is marked invalid
\* and no save is invoked.
C5_ListedNameBlocksSave ==
  [][(lastOp = "validateIndexNameResolved"
      /\ followerIndex["name"] \in fetched.indices
      /\ lastOp' = "sendForm") => ~SaveInvoked' /\ areErrorsVisible']_vars

\* C6 as stated: a blank name edit ends with isValidatingIndexName false,
\* and while the name is blank no fetch of the index list starts.
C6_NoFetchAfterBlankName ==
  [][/\ (lastOp' = "onIndexNameChange" /\ isBlank(followerIndex'["name"]))
          => ~isValidatingIndexName'
     /\ isBlank(followerIndex["name"]) => ~validateIndexNameStart]_vars

\* C7 as stated: a failed fetch reaches the fatal-error reporter iff the
\* error carries no data; with data the indicator is cleared, fieldsErrors
\* is unchanged and the reporter is not invoked.
C7_FatalOnlyWithoutData ==
  [][/\ lastOp' = "validateIndexNameRejectedOther" => "fatalError" \in calls'
     /\ lastOp' = "validateIndexNameRejectedData" =>
          /\ "fatalError" \notin calls'
          /\ ~isValidatingIndexName'
          /\ fieldsErrors' = fieldsErrors]_vars

\* C8: a show that follows a hide gives every advanced field the value it
\* had before the hide (empty ones stay empty), however many hide/show
\* pairs came before, and no toggle changes name, remoteCluster or
\* leaderIndex.
C8_HideShowRestores ==
  [][lastOp' = "toggleAdvancedSettings" =>
       /\ \A f \in IdentityFields : followerIndex'[f] = followerIndex[f]
       /\ (areAdvancedSettingsVisible' /\ preHide # Nil) =>
            \A f \in advancedSettingsFields : followerIndex'[f] = preHide[f]]_vars

C8_Witness ==
  /\ lastOp = "toggleAdvancedSettings"
  /\ areAdvancedSettingsVisible
  /\ preHide # Nil
  /\ preHide["maxReadRequestOperationCount"] = "x"
  /\ preHide["maxRetryDelay"] = ""
  /\ followerIndex["maxReadRequestOperationCount"] = "x"
  /\ followerIndex["name"] = "a"

\* C9: in edit mode no step changes name, remoteCluster or leaderIndex,
\* the advanced settings stay visible and a save passes the record's name;
\* the toggle is offered exactly in new mode.
C9_EditModeIdentityFixed ==
  [][/\ ~isNew =>
          /\ \A f \in IdentityFields : followerIndex'[f] = followerIndex[f]
          /\ areAdvancedSettingsVisible /\ areAdvancedSettingsVisible'
          /\ SaveInvoked' => saveArgs'.name = followerIndex["name"]
     /\ lastOp' = "toggleAdvancedSettings" => isNew
     /\ isToggleOffered <=> isNew
     /\ isNew' = isNew]_vars

C9_Witness ==
  /\ ~isNew
  /\ SaveInvoked
  /\ saveArgs.name = "a"
  /\ followerIndex["maxRetryDelay"] = "1"
  /\ followerIndex["maxReadRequestOperationCount"] = ""

\* C10: every handler that goes through onFieldsChange invokes
\* clearApiError iff an API error is pending when it runs.
C10_ClearApiErrorIffPending ==
  [][lastOp' \in {"onIndexNameChange", "onFieldsChange", "onClusterChange",
                  "toggleAdvancedSettings"} =>
       ("clearApiError" \in calls' <=> apiError)]_vars

C10_Witness ==
  /\ lastOp = "toggleAdvancedSettings"
  /\ "clearApiError" \in calls
  /\ ~areAdvancedSettingsVisible
  /\ cachedAdvancedSettings # Nil

\* C11: right after construction isNew tells whether a record was supplied,
\* followerIndex is the empty defaults with the resolved cluster (new) or
\* the supplied record over the defaults (edit), the advanced section is
\* visible iff not new, areErrorsVisible and isValidatingIndexName are
\* false, and every validated field carries its validator's result.
C11_InitialState ==
  lastOp = "constructor" =>
    /\ isNew =>
         /\ followerIndex["remoteCluster"] \in ClusterValues
         /\ \A f \in Fields \ {"remoteCluster"} : followerIndex[f] = ""
    /\ ~isNew => followerIndex \in ExistingRecords
    /\ areAdvancedSettingsVisible = ~isNew
    /\ ~areErrorsVisible
    /\ ~isValidatingIndexName
    /\ \A f \in ValidatedFields :
         fieldsErrors[f] = fieldToValidatorMap(f, followerIndex[f])
    /\ fieldsErrors["remoteCluster"] = NoError

C11_Witness ==
  /\ lastOp = "constructor"
  /\ ~isNew
  /\ areAdvancedSettingsVisible
  /\ fieldsErrors["maxRetryDelay"] = InvalidError
  /\ fieldsErrors["name"] = NoError
\* What re-running the registered validator on a field's current value gives.
ValidatorResult(f) ==
  IF f \in ValidatedFields THEN fieldToValidatorMap(f, followerIndex[f])
  ELSE NoError

\* C12 as stated: every entry of fieldsErrors is what the field's validator
\* yields for the current value, and no field carries any other error.
C12_ErrorsAreValidatorResults ==
  \A f \in Fields : fieldsErrors[f] = ValidatorResult(f)

\* C12, amended: every validated field's entry is its validator's result on
\* the current value, except that the name entry may hold the sticky
\* already-exists error of the collision check instead; remoteCluster, which
\* has no validator, holds only what onError reported.
C12_ErrorsAreValidatorResultsOrReported ==
  /\ \A f \in ValidatedFields \ {"name"} : fieldsErrors[f] = ValidatorResult(f)
  /\ fieldsErrors["name"] \in {ValidatorResult("name"), AlreadyExistsError}
  /\ fieldsErrors["remoteCluster"] \in {NoError, ClusterError}

C12_Witness ==
  /\ CollisionFlagged
  /\ ValidatorResult("name") = NoError
  /\ fieldsErrors["remoteCluster"] = ClusterError
  /\ fieldsErrors["leaderIndex"] = RequiredError
  /\ followerIndex["leaderIndex"] = ""
\* C13: while the advanced section is hidden every advanced field is empty
\* (so a save sends only empty advanced settings); a hide leaves in the
\* cache exactly the advanced fields that were non-empty, with their
\* values, and a show leaves the cache empty.
C13_HiddenMeansEmptyAndCached ==
  [][/\ ~areAdvancedSettingsVisible =>
          \A f \in advancedSettingsFields : followerIndex[f] = ""
     /\ ~areAdvancedSettingsVisible' =>
          \A f \in advancedSettingsFields : followerIndex'[f] = ""
     /\ (SaveInvoked' /\ ~areAdvancedSettingsVisible') =>
          \A f \in advancedSettingsFields : saveArgs'.followerIndex[f] = ""
     /\ (lastOp' = "toggleAdvancedSettings" /\ ~areAdvancedSettingsVisible') =>
          /\ DOMAIN cachedAdvancedSettings' =
               {f \in advancedSettingsFields : followerIndex[f] # ""}
          /\ \A f \in DOMAIN cachedAdvancedSettings' :
               cachedAdvancedSettings'[f] = followerIndex[f]
     /\ (lastOp' = "toggleAdvancedSettings" /\ areAdvancedSettingsVisible') =>
          DOMAIN cachedAdvancedSettings' = {}]_vars

C13_Witness ==
  /\ lastOp = "toggleAdvancedSettings"
  /\ ~areAdvancedSettingsVisible
  /\ DOMAIN cachedAdvancedSettings = {"maxRetryDelay"}
  /\ cachedAdvancedSettings["maxRetryDelay"] = "x"
  /\ \A f \in advancedSettingsFields : followerIndex[f] = ""
\* C14: the result of a check started for a name the field no longer holds
\* is applied all the same: when the checked name is in the list, the
\* sticky error is set on the name field and the field keeps its value.
C14_StaleResultApplied ==
  [][(lastOp' = "validateIndexNameResolved"
      /\ fetched'.name # followerIndex["name"]
      /\ fetched'.name \in fetched'.indices) =>
        /\ CollisionFlagged'
        /\ followerIndex' = followerIndex]_vars

\* The state C14 says is reachable: the sticky error on a name no fetched
\* index has.
C14_Witness ==
  /\ lastOp = "validateIndexNameResolved"
  /\ fetched.name # followerIndex["name"]
  /\ fetched.name \in fetched.indices
  /\ followerIndex["name"] \notin fetched.indices
  /\ ~isBlank(followerIndex["name"])
  /\ CollisionFlagged
\* A collision check for the name the field holds is pending in the
\* debounce or awaiting its fetch.
CheckOutstanding ==
  /\ ~isBlank(followerIndex["name"])
  /\ \/ debounced = followerIndex["name"]
     \/ inflight[followerIndex["name"]] > 0

\* C15 as stated: in new mode isValidatingIndexName is true whenever a
\* collision check for the current non-empty name is outstanding.
C15_ValidatingWhileOutstanding ==
  (isNew /\ CheckOutstanding) => isValidatingIndexName
\* C16: the collision check is debounced, last call wins. A non-blank name
\* edit makes the edited name the one pending check; only such an edit or
\* the delay elapsing changes what is pending; when the delay elapses one
\* pending check exists, exactly one fetch starts for its name and nothing
\* stays pending; no other step starts a fetch.
C16_DebounceLastCallWins ==
  [][/\ (lastOp' = "onIndexNameChange" /\ ~isBlank(followerIndex'["name"]))
          => debounced' = followerIndex'["name"]
     /\ (\/ lastOp' \notin {"onIndexNameChange", "validateIndexNameStart"}
         \/ (lastOp' = "onIndexNameChange" /\ isBlank(followerIndex'["name"])))
          => debounced' = debounced
     /\ lastOp' = "validateIndexNameStart"
          => /\ debounced \in IndexNames
             /\ debounced' = NoCall
             /\ inflight' = [inflight EXCEPT ![debounced] = @ + 1]
             /\ calls' = {"loadIndices"}
     /\ lastOp' # "validateIndexNameStart"
          => /\ \A n \in IndexNames : inflight'[n] <= inflight[n]
             /\ "loadIndices" \notin calls']_vars

\* A second name edit arrived while the first name's fetch was running and
\* its own check then started: one fetch per name, none pending.
C16_Witness ==
  /\ lastOp = "validateIndexNameStart"
  /\ followerIndex["name"] = "b"
  /\ inflight["b"] = 1
  /\ debounced = NoCall
\* What a merge of partialFields leaves: the keys outside it keep value and
\* error entry, its keys take the new value, and exactly its keys that have
\* a registered validator get that validator's verdict on the new value.
MergedNotReplaced(partialFields) ==
  /\ \A f \in Fields \ DOMAIN partialFields :
        followerIndex'[f] = followerIndex[f]
  /\ \A f \in DOMAIN partialFields : followerIndex'[f] = partialFields[f]
  /\ \A f \in (DOMAIN partialFields) \cap ValidatedFields :
        fieldsErrors'[f] = fieldToValidatorMap(f, partialFields[f])
  /\ \A f \in Fields \ ((DOMAIN partialFields) \cap ValidatedFields) :
        fieldsErrors'[f] = fieldsErrors[f]

\* C17: every handler that goes through onFieldsChange(partialFields) (a
\* name, leader index, advanced setting or cluster edit, and both
\* directions of the advanced-settings toggle) merges partialFields into
\* followerIndex and revalidates exactly its validated keys.
C17_OnFieldsChangeMerges ==
  [][/\ \A name \in NameValues :
          onIndexNameChange(name) =>
            MergedNotReplaced([f \in {"name"} |-> name])
     /\ \A value \in LeaderValues :
          onLeaderIndexUpdate(value) =>
            MergedNotReplaced([f \in {"leaderIndex"} |-> value])
     /\ \A field \in advancedSettingsFields : \A value \in AdvValues :
          onAdvancedSettingUpdate(field, value) =>
            MergedNotReplaced([f \in {field} |-> value])
     /\ \A remoteCluster \in ClusterValues :
          onClusterChange(remoteCluster) =>
            MergedNotReplaced([f \in {"remoteCluster"} |-> remoteCluster])
     /\ toggleAdvancedSettings =>
          MergedNotReplaced(IF areAdvancedSettingsVisible
                              THEN emptyAdvancedSettings
                              ELSE cachedAdvancedSettings)]_vars

\* An update without the name key has run while the name carries the
\* sticky collision error and another field a value of its own.
C17_Witness ==
  /\ lastOp = "onFieldsChange"
  /\ CollisionFlagged
  /\ followerIndex["name"] \in IndexNames
  /\ followerIndex["leaderIndex"] = "l"
  /\ followerIndex["maxRetryDelay"] = "x"
\* C18 as stated: the fieldsErrors entry of remoteCluster, the one field
\* without a registered validator, is absent in every reachable state.
C18_RemoteClusterAlwaysValid == fieldsErrors["remoteCluster"] = NoError

\* C18, amended: remoteCluster has no validator, so its fieldsErrors entry
\* is absent after construction and no field edit, cluster change, toggle,
\* collision-check step, submit or cancel sets, changes or clears it; only
\* the cluster field's onError report does.
C18_RemoteClusterErrorOnlyReported ==
  /\ (lastOp = "constructor" => fieldsErrors["remoteCluster"] = NoError)
  /\ [][lastOp' # "onError" =>
          fieldsErrors'["remoteCluster"] = fieldsErrors["remoteCluster"]]_vars

\* A cluster was chosen while the cluster field's reported error stands.
C18_Witness ==
  /\ lastOp = "onClusterChange"
  /\ followerIndex["remoteCluster"] = "c1"
  /\ fieldsErrors["remoteCluster"] = ClusterError
\* C19: areErrorsVisible is false after construction; a sendForm step sets
\* it to true when some fieldsErrors entry is present and to false when
\* none is; every other step leaves it as it was.  Hence it always tells
\* whether the most recent sendForm found the form invalid.
C19_ErrorsVisibleOnlyBySendForm ==
  /\ (lastOp = "constructor" => ~areErrorsVisible)
  /\ [][/\ (lastOp' = "sendForm") => (areErrorsVisible' = ~AllErrorsAbsent)
        /\ (lastOp' # "sendForm") => (areErrorsVisible' = areErrorsVisible)]_vars

\* A failed sendForm has revealed the errors and field edits have since
\* repaired every one of them: the flag is still up.
C19_Witness ==
  /\ areErrorsVisible
  /\ lastOp = "onFieldsChange"
  /\ AllErrorsAbsent
\* The errors are revealed and some tracked field still carries one.
ErrorsRevealedAndPresent == areErrorsVisible /\ ~AllErrorsAbsent

\* C20: Save can be pressed exactly when no save is in flight and the
\* errors are not both revealed and present, and the warning banner shows
\* exactly when they are; so a sendForm step never happens during a save,
\* and one that happens after the errors were revealed finds every error
\* absent and starts the save.
C20_SaveOfferedIffNotBlocked ==
  /\ []((ENABLED sendForm) <=>
          (apiStatus # "saving" /\ ~ErrorsRevealedAndPresent))
  /\ [](isFormErrorWarningShown <=> ErrorsRevealedAndPresent)
  /\ [][(lastOp' = "sendForm") =>
          /\ apiStatus # "saving"
          /\ areErrorsVisible => (AllErrorsAbsent /\ SaveInvoked')]_vars

\* After a failed submit an edit has left an error in place: the banner is
\* up and Save is disabled although no save is in flight.
C20_Witness ==
  /\ ErrorsRevealedAndPresent
  /\ lastOp = "onFieldsChange"
  /\ apiStatus = "idle"
  /\ ~ENABLED sendForm
=============================================================================
